---- MODULE Spec2Model ----
(***************************************************************************)
(* Model of the product inventory service of src/main.py: a FastAPI app    *)
(* with five handlers (create, get, update, delete, list) over one SQLite  *)
(* table "products" reached through one SQLAlchemy session per request.    *)
(*                                                                         *)
(* The table variable is the committed content of the database.  A handler *)
(* is split where it talks to the database: every SELECT and every         *)
(* flush+COMMIT is one step, because SQLite serialises writers and other   *)
(* connections only ever see committed rows.  The handlers are plain       *)
(* "def" functions, which FastAPI runs on a thread pool, so the steps of   *)
(* different requests interleave (Spec).  SpecSeq is the same program with *)
(* one request in flight at a time.                                        *)
(*                                                                         *)
(* The request and response models are read as pydantic 2 under FastAPI    *)
(* reads them, the build on which test_create_product passes: a handler    *)
(* may return an ORM object through a response_model (no orm_mode needed), *)
(* and a field declared "str = None" may be left out but may not hold      *)
(* None, so a row whose description or category is NULL fails response     *)
(* validation and the request ends in 500.  Payloads that fail type        *)
(* validation (a JSON null, a non-number) end in 422 as the constraint     *)
(* failures modelled here do and are not enumerated.                       *)
(***************************************************************************)
EXTENDS Integers, FiniteSets, Sequences, TLC

VARIABLES table, pc, req, loc, resp, pre, sess, high

vars == <<table, pc, req, loc, resp, pre, sess, high>>

\* ---------------------------------------------------------------- bounds
MaxId == 2
NumClients == 2
\* The most fields one update payload supplies.
MaxSupplied == 2

Clients == 1..NumClients
Ids == 1..MaxId

\* ---------------------------------------------------------------- values
\* Python's None in a nullable string column or an optional string field.
None == "None"

Fields == {"name", "price", "quantity", "description", "category"}

Names == {"", " ", "a"}
Prices == {0, 1, 2}
Quantities == {0 - 1, 0, 1}
Descriptions == {"d"}
Categories == {"c"}

\* ProductCreate: name, price and quantity are required, description and
\* category default to None.  "set" is pydantic's set of supplied fields.
CreateBody(n, p, q, d, g) ==
    [set |-> {"name", "price", "quantity"}
               \cup (IF d = None THEN {} ELSE {"description"})
               \cup (IF g = None THEN {} ELSE {"category"}),
     name |-> n, price |-> p, quantity |-> q, description |-> d, category |-> g]

\* ProductUpdate: every field is optional; an unsupplied field holds its
\* default and is not in "set".
UpdateBody(S, n, p, q, d, g) ==
    [set |-> S,
     name |-> IF "name" \in S THEN n ELSE None,
     price |-> IF "price" \in S THEN p ELSE 0,
     quantity |-> IF "quantity" \in S THEN q ELSE 0,
     description |-> IF "description" \in S THEN d ELSE None,
     category |-> IF "category" \in S THEN g ELSE None]

NoBody == UpdateBody({}, None, 0, 0, None, None)

CreateBodies ==
    {CreateBody(n, p, q, d, g) :
        n \in Names, p \in Prices, q \in Quantities,
        d \in Descriptions \cup {None}, g \in Categories \cup {None}}

UpdateBodies ==
    {UpdateBody(S, n, p, q, d, g) :
        S \in {T \in SUBSET Fields : Cardinality(T) <= MaxSupplied}, n \in Names, p \in Prices, q \in Quantities,
        d \in Descriptions, g \in Categories}

\* The optional price_gte query parameter: <<>> when absent, <<x>> when given.
Filters == {<<>>, <<0 - 1>>, <<1>>, <<2>>, <<3>>}

Request(op, id, body, filter) ==
    [op |-> op, id |-> id, body |-> body, filter |-> filter]

NoReq == Request("none", 0, NoBody, <<>>)

CreateRequests == {Request("create", 0, b, <<>>) : b \in CreateBodies}
GetRequests == {Request("get", i, NoBody, <<>>) : i \in Ids}
UpdateRequests == {Request("update", i, b, <<>>) : i \in Ids, b \in UpdateBodies}
DeleteRequests == {Request("delete", i, NoBody, <<>>) : i \in Ids}
ListRequests == {Request("list", 0, NoBody, f) : f \in Filters}

Requests ==
    CreateRequests \cup GetRequests \cup UpdateRequests
        \cup DeleteRequests \cup ListRequests

\* ------------------------------------------------------------- responses
Response(status, detail, message, body) ==
    [status |-> status, detail |-> detail, message |-> message, body |-> body]

NoResp == Response(0, "", "", {})

Ok(rows) == Response(200, "", "", rows)
HttpError(status, detail) == Response(status, detail, "", {})

\* FastAPI's RequestValidationError handler.
Unprocessable == HttpError(422, "validation error")

\* An exception no handler catches: Starlette's ServerErrorMiddleware.
ServerError == HttpError(500, "Internal Server Error")

\* response_model=ProductResponse (or a list of it): every returned row is
\* validated against ProductResponse, whose description and category are
\* declared str; a row that fails raises ResponseValidationError.
Serialize(rows) ==
    IF \A r \in rows : r.description # None /\ r.category # None
      THEN Ok(rows)
      ELSE ServerError

\* --------------------------------------------------------------- storage
\* A stored row: the columns of Product.
Row(id, b) ==
    [id |-> id, name |-> b.name, price |-> b.price, quantity |-> b.quantity,
     description |-> b.description, category |-> b.category]

RECURSIVE MaxOf(_)
MaxOf(S) ==
    IF S = {} THEN 0
    ELSE LET x == CHOOSE y \in S : TRUE
             m == MaxOf(S \ {x})
         IN IF x > m THEN x ELSE m

\* Mutant: the query has no filter on the id.
FirstUnfiltered(tbl, id) == tbl

\* db.query(Product).filter(Product.id == product_id).first(): the row with
\* that primary key, or nothing (None).
First(tbl, id) == {r \in tbl : r.id = id}

\* Mutant: the new id is the number of rows plus one.
NewIdByCount(tbl) == Cardinality(tbl) + 1

\* SQLite's rowid for an INTEGER PRIMARY KEY column declared without
\* AUTOINCREMENT: one more than the largest rowid in the table.
NewId(tbl) == MaxOf({r.id : r \in tbl}) + 1

\* Mutant: the constraint is checked on INSERT only.
NameTakenOnInsert(tbl, name, id) ==
    id = 0 /\ \E r \in tbl : r.name = name /\ r.id # id

\* Mutant: the table has no uniqueness constraint.
NameTakenNever(tbl, name, id) == FALSE

\* Mutant: the constraint looks at the row's own name only.
NameTakenBySelf(tbl, name, id) == \E r \in tbl : r.name = name /\ r.id = id

\* UniqueConstraint('name'): another row already holds the name.
NameTaken(tbl, name, id) == \E r \in tbl : r.name = name /\ r.id # id

\* INSERT of Product(**product.dict()).
Insert(tbl, b) == tbl \cup {Row(NewId(tbl), b)}

\* Mutant: product.dict() without exclude_unset, so that the defaults of the
\* unsupplied fields are written too.
SetattrAll(row, b) ==
    [id |-> row.id, name |-> b.name, price |-> b.price,
     quantity |-> b.quantity, description |-> b.description,
     category |-> b.category]

\* for key, value in update_data.items(): setattr(db_product, key, value),
\* where update_data = product.dict(exclude_unset=True).
Setattr(row, b) ==
    [id |-> row.id,
     name |-> IF "name" \in b.set THEN b.name ELSE row.name,
     price |-> IF "price" \in b.set THEN b.price ELSE row.price,
     quantity |-> IF "quantity" \in b.set THEN b.quantity ELSE row.quantity,
     description |-> IF "description" \in b.set THEN b.description
                     ELSE row.description,
     category |-> IF "category" \in b.set THEN b.category ELSE row.category]

\* The attributes with a net change: the columns the flush writes.
Dirty(old, new) == {k \in Fields : old[k] # new[k]}

\* UPDATE products SET <cols> WHERE id = ?
UpdateRow(tbl, id, cols, new) ==
    {IF r.id = id
       THEN [id |-> r.id,
             name |-> IF "name" \in cols THEN new.name ELSE r.name,
             price |-> IF "price" \in cols THEN new.price ELSE r.price,
             quantity |-> IF "quantity" \in cols THEN new.quantity
                          ELSE r.quantity,
             description |-> IF "description" \in cols THEN new.description
                             ELSE r.description,
             category |-> IF "category" \in cols THEN new.category
                          ELSE r.category]
       ELSE r : r \in tbl}

\* Mutant: the DELETE has no WHERE clause.
DeleteEveryRow(tbl, id) == {}

\* DELETE FROM products WHERE id = ?
DeleteRow(tbl, id) == {r \in tbl : r.id # id}

\* query.filter(Product.price >= price_gte) when the parameter is given.
Filtered(tbl, f) == IF f = <<>> THEN tbl ELSE {r \in tbl : r.price >= f[1]}

\* ------------------------------------------------------------ validation
\* Mutant: quantity is not constrained.
ValidCreateNoQuantity(b) == b.price > 0

\* ProductCreate: price gt=0, quantity ge=0.
ValidCreate(b) == b.price > 0 /\ b.quantity >= 0

\* ProductUpdate: the same constraints on a supplied price or quantity.
ValidUpdate(b) ==
    /\ "price" \in b.set => b.price > 0
    /\ "quantity" \in b.set => b.quantity >= 0

\* Query(None, ge=0).
ValidFilter(f) == f = <<>> \/ f[1] >= 0

Validates(r) ==
    CASE r.op = "create" -> ValidCreate(r.body)
      [] r.op = "update" -> ValidUpdate(r.body)
      [] r.op = "list" -> ValidFilter(r.filter)
      [] OTHER -> TRUE

\* ----------------------------------------------------------- the program
TypeOK ==
    /\ \A r \in table : r.id \in Ids
    /\ pc \in [Clients -> {"idle", "create", "create_refresh", "get", "update",
                           "update_commit", "update_refresh", "delete",
                           "delete_commit", "list", "done"}]
    /\ sess \in [Clients -> {"closed", "open"}]
    /\ \A c \in Clients : Cardinality(loc[c]) <= 1
    /\ high \in Ids \cup {0}

\* No request yet: the table as Base.metadata.create_all leaves it.
Init ==
    /\ table = {}
    /\ pc = [c \in Clients |-> "idle"]
    /\ req = [c \in Clients |-> NoReq]
    /\ loc = [c \in Clients |-> {}]
    /\ resp = [c \in Clients |-> NoResp]
    /\ pre = [c \in Clients |-> {}]
    /\ sess = [c \in Clients |-> "closed"]
    /\ high = 0

\* high is the largest id ever given to a new row: every id up to it has
\* been given at least once.
Highest(h, id) == IF id > h THEN id ELSE h

\* Mutant: get_db without the finally clause.
CloseSkipped(s) == s

\* get_db's finally: db.close().
Close(s) == "closed"

\* The ORM object a handler holds (db_product).
Obj(c) == CHOOSE r \in loc[c] : TRUE

\* A handler step that ends the request with a response and leaves the
\* table alone.
Reply(c, r) ==
    /\ pc' = [pc EXCEPT ![c] = "done"]
    /\ resp' = [resp EXCEPT ![c] = r]

\* Creates not yet committed: each may still take an id.
Creating == {d \in Clients : pc[d] = "create"}

\* FastAPI takes a request: get_db opens the session, the body and the
\* parameters are validated against the request model, and the handler is
\* entered on a worker thread unless validation fails (422).  The threads
\* are interchangeable: the request goes to the first idle one.  A create
\* that can store a row is taken only while an id within the bound is left
\* for it.  pre records the table the request met (kept in the runs with
\* one request at a time, where it is the table before the call).
Receive(c, r, snapshot) ==
    /\ pc[c] = "idle"
    /\ \A d \in Clients : d < c => pc[d] # "idle"
    /\ (r.op = "create" /\ Validates(r) /\ r.body.name # "")
          => NewId(table) + Cardinality(Creating) <= MaxId
    /\ req' = [req EXCEPT ![c] = r]
    /\ sess' = [sess EXCEPT ![c] = "open"]
    /\ pre' = [pre EXCEPT ![c] = snapshot]
    /\ IF Validates(r)
         THEN /\ pc' = [pc EXCEPT ![c] = r.op]
              /\ resp' = resp
         ELSE Reply(c, Unprocessable)
    /\ UNCHANGED <<table, loc, high>>

\* create_product: the name check, then db.add and db.commit.
CreateProduct(c) ==
    /\ pc[c] = "create"
    /\ LET b == req[c].body IN
       IF b.name = ""
         THEN /\ Reply(c, HttpError(400, "Product name is required"))
              /\ UNCHANGED <<table, loc, high>>
       ELSE IF NameTaken(table, b.name, 0)
         THEN \* IntegrityError: db.rollback()
              /\ Reply(c, HttpError(400,
                     "Product creation failed due to duplicate name."))
              /\ UNCHANGED <<table, loc, high>>
       ELSE /\ table' = Insert(table, b)
            /\ loc' = [loc EXCEPT ![c] = {Row(NewId(table), b)}]
            /\ high' = Highest(high, NewId(table))
            /\ pc' = [pc EXCEPT ![c] = "create_refresh"]
            /\ resp' = resp
    /\ UNCHANGED <<req, pre, sess>>

\* db.refresh(db_product) and the return: the row is read again by its
\* primary key (a row that is gone raises InvalidRequestError) and goes
\* through the response model.
Refresh(c) ==
    /\ IF First(table, Obj(c).id) = {}
         THEN Reply(c, ServerError)
         ELSE Reply(c, Serialize(First(table, Obj(c).id)))
    /\ UNCHANGED <<table, req, loc, pre, sess, high>>

CreateRefresh(c) ==
    /\ pc[c] = "create_refresh"
    /\ Refresh(c)

\* get_product: what it answers for an id on a table.
GetResponse(tbl, id) ==
    IF First(tbl, id) = {}
      THEN HttpError(404, "Product not found")
      ELSE Serialize(First(tbl, id))

\* get_product
GetProduct(c) ==
    /\ pc[c] = "get"
    /\ Reply(c, GetResponse(table, req[c].id))
    /\ UNCHANGED <<table, req, loc, pre, sess, high>>

\* update_product: the lookup.
UpdateLookup(c) ==
    /\ pc[c] = "update"
    /\ IF First(table, req[c].id) = {}
         THEN /\ Reply(c, HttpError(404, "Product not found"))
              /\ loc' = loc
         ELSE /\ loc' = [loc EXCEPT ![c] = First(table, req[c].id)]
              /\ pc' = [pc EXCEPT ![c] = "update_commit"]
              /\ resp' = resp
    /\ UNCHANGED <<table, req, pre, sess, high>>

\* update_product: the checks on update_data, the setattr loop and
\* db.commit.  The flush writes the changed columns of the row with the
\* object's id; no changed column, no UPDATE; an UPDATE that matches no row
\* raises StaleDataError, which the handler does not catch.
UpdateCommit(c) ==
    /\ pc[c] = "update_commit"
    /\ LET b == req[c].body
           new == Setattr(Obj(c), b)
           cols == Dirty(Obj(c), new)
       IN
       IF "price" \in b.set /\ b.price <= 0
         THEN /\ Reply(c, HttpError(400, "Price must be greater than 0"))
              /\ UNCHANGED <<table, loc>>
       ELSE IF "quantity" \in b.set /\ b.quantity < 0
         THEN /\ Reply(c, HttpError(400,
                     "Quantity must be greater than or equal to 0"))
              /\ UNCHANGED <<table, loc>>
       ELSE IF cols = {}
         THEN /\ pc' = [pc EXCEPT ![c] = "update_refresh"]
              /\ UNCHANGED <<table, loc, resp>>
       ELSE IF First(table, new.id) = {}
         THEN /\ Reply(c, ServerError)
              /\ UNCHANGED <<table, loc>>
       ELSE IF "name" \in cols /\ NameTaken(table, new.name, new.id)
         THEN \* IntegrityError: db.rollback()
              /\ Reply(c, HttpError(400,
                     "Product update failed due to integrity error."))
              /\ UNCHANGED <<table, loc>>
       ELSE /\ table' = UpdateRow(table, new.id, cols, new)
            /\ loc' = [loc EXCEPT ![c] = {new}]
            /\ pc' = [pc EXCEPT ![c] = "update_refresh"]
            /\ resp' = resp
    /\ UNCHANGED <<req, pre, sess, high>>

UpdateRefresh(c) ==
    /\ pc[c] = "update_refresh"
    /\ Refresh(c)

\* delete_product: the lookup.
DeleteLookup(c) ==
    /\ pc[c] = "delete"
    /\ IF First(table, req[c].id) = {}
         THEN /\ Reply(c, HttpError(404, "Product not found"))
              /\ loc' = loc
         ELSE /\ loc' = [loc EXCEPT ![c] = First(table, req[c].id)]
              /\ pc' = [pc EXCEPT ![c] = "delete_commit"]
              /\ resp' = resp
    /\ UNCHANGED <<table, req, pre, sess, high>>

\* delete_product: db.delete and db.commit.  A DELETE that matches no row
\* is only warned about.
DeleteCommit(c) ==
    /\ pc[c] = "delete_commit"
    /\ table' = DeleteRow(table, Obj(c).id)
    /\ Reply(c, Response(200, "", "Product deleted successfully", {}))
    /\ UNCHANGED <<req, loc, pre, sess, high>>

\* list_products
ListProducts(c) ==
    /\ pc[c] = "list"
    /\ Reply(c, Serialize(Filtered(table, req[c].filter)))
    /\ UNCHANGED <<table, req, loc, pre, sess, high>>

\* The response leaves and get_db's finally closes the session.
Respond(c) ==
    /\ pc[c] = "done"
    /\ pc' = [pc EXCEPT ![c] = "idle"]
    /\ req' = [req EXCEPT ![c] = NoReq]
    /\ loc' = [loc EXCEPT ![c] = {}]
    /\ resp' = [resp EXCEPT ![c] = NoResp]
    /\ pre' = [pre EXCEPT ![c] = {}]
    /\ sess' = [sess EXCEPT ![c] = Close(sess[c])]
    /\ UNCHANGED <<table, high>>

Handle(c) ==
    \/ CreateProduct(c) \/ CreateRefresh(c)
    \/ GetProduct(c)
    \/ UpdateLookup(c) \/ UpdateCommit(c) \/ UpdateRefresh(c)
    \/ DeleteLookup(c) \/ DeleteCommit(c)
    \/ ListProducts(c)
    \/ Respond(c)

\* A request arrives while no other is in flight.
Idle == \A d \in Clients : pc[d] = "idle"

AcceptAlone(c) == Idle /\ \E r \in Requests : Receive(c, r, table)

NextSeq == \E c \in Clients : AcceptAlone(c) \/ Handle(c)

\* One request at a time, every payload.
SpecSeq == Init /\ [][NextSeq]_vars

\* The requests of the interleaved runs: two names, one valid quantity, a
\* create supplies description and category, an update neither and at most
\* one field.
ConcRequests ==
    {r \in Requests :
        /\ r.op = "create" => {"description", "category"} \subseteq r.body.set
        /\ r.op = "update"
              => /\ r.body.set \cap {"description", "category"} = {}
                 /\ Cardinality(r.body.set) <= 1
        /\ "name" \in r.body.set => r.body.name # ""
        /\ r.body.quantity <= 0
        /\ r.filter \in {<<>>, <<0 - 1>>, <<2>>}}

Accept(c) == \E r \in ConcRequests : Receive(c, r, {})

Next == \E c \in Clients : Accept(c) \/ Handle(c)

\* Requests interleave at their database steps.
Spec == Init /\ [][Next]_vars

\* ---------------------------------------------------------------- claims
\* Client c holds the response of a request of kind op, not yet sent.
Finished(c, op) == pc[c] = "done" /\ req[c].op = op

Body(c) == req[c].body

Holds(tbl, name) == \E r \in tbl : r.name = name

IdsOf(tbl) == {r.id : r \in tbl}

\* C1: in every reachable state, under every interleaving of requests, no
\* two stored products have the same name.
C1_UniqueNames == \A r1, r2 \in table : r1.name = r2.name => r1 = r2

\* Two rows are stored and an update that would have taken the other row's
\* name has been refused.
C1_Witness ==
    /\ Cardinality(table) = 2
    /\ \E c \in Clients :
          /\ Finished(c, "update")
          /\ resp[c].detail = "Product update failed due to integrity error."

\* C2: in every reachable state, under every interleaving of requests,
\* every stored product has price > 0 and quantity >= 0.
C2_ValidRows == \A r \in table : r.price > 0 /\ r.quantity >= 0

\* An update that supplied a price has been applied while another request
\* is between its database steps.
C2_Witness ==
    \E c, d \in Clients :
        /\ Finished(c, "update")
        /\ resp[c].status = 200
        /\ "price" \in Body(c).set
        /\ pc[d] \in {"create_refresh", "update_commit", "delete_commit"}

\* C3: with no other request in flight, a create whose payload has a
\* non-empty name that no stored row holds, price > 0 and quantity >= 0
\* answers 200, adds exactly one row and changes no other, and returns that
\* row: the submitted name, price, quantity, description and category with
\* an id no stored row had before the call.
C3_CreateStores ==
    \A c \in Clients :
        (/\ Finished(c, "create")
         /\ ValidCreate(Body(c))
         /\ Body(c).name # ""
         /\ ~Holds(pre[c], Body(c).name))
        => /\ resp[c].status = 200
           /\ \E row \in table :
                 /\ row \notin pre[c]
                 /\ table = pre[c] \cup {row}
                 /\ row.id \notin IdsOf(pre[c])
                 /\ \A k \in Fields : row[k] = Body(c)[k]
                 /\ resp[c].body = {row}

\* C4: with no other request in flight, a create whose name a stored row
\* already holds answers 400 "Product creation failed due to duplicate
\* name." and leaves the table as it was before the call, with exactly one
\* row of that name.
C4_DuplicateCreate ==
    \A c \in Clients :
        (/\ Finished(c, "create")
         /\ ValidCreate(Body(c))
         /\ Body(c).name # ""
         /\ Holds(pre[c], Body(c).name))
        => /\ resp[c] = HttpError(400,
                  "Product creation failed due to duplicate name.")
           /\ table = pre[c]
           /\ Cardinality({r \in table : r.name = Body(c).name}) = 1

\* A create with the name of a stored row, and another price than that row
\* has, has been refused.
C4_Witness ==
    \E c \in Clients :
        /\ Finished(c, "create")
        /\ ValidCreate(Body(c))
        /\ Body(c).name # ""
        /\ resp[c].status = 400
        /\ \E r \in pre[c] :
              r.name = Body(c).name /\ r.price # Body(c).price

\* C5: with no other request in flight, a get answers 200 with the stored
\* row of the id when there is one and 404 "Product not found" when there
\* is none, and leaves the table unchanged.
C5_Get ==
    \A c \in Clients :
        Finished(c, "get")
        => /\ table = pre[c]
           /\ IF req[c].id \in IdsOf(pre[c])
                THEN resp[c] = Ok({r \in pre[c] : r.id = req[c].id})
                ELSE resp[c] = HttpError(404, "Product not found")

\* C6: with no other request in flight, a delete of an id that has a row
\* answers 200 with the message "Product deleted successfully" and removes
\* that row and no other, after which a get of the id answers 404 "Product
\* not found".
C6_Delete ==
    \A c \in Clients :
        (Finished(c, "delete") /\ req[c].id \in IdsOf(pre[c]))
        => /\ resp[c] = Response(200, "", "Product deleted successfully", {})
           /\ table = {r \in pre[c] : r.id # req[c].id}
           /\ Cardinality(table) = Cardinality(pre[c]) - 1
           /\ GetResponse(table, req[c].id)
                 = HttpError(404, "Product not found")

\* A delete has answered 200 on a table of two rows.
C6_Witness ==
    \E c \in Clients :
        /\ Finished(c, "delete")
        /\ resp[c].status = 200
        /\ Cardinality(pre[c]) = 2

\* C7: with no other request in flight, an update that answers 200 has
\* set the supplied fields of the row to the supplied values and nothing
\* else: the row's other fields and its id, and every other row, are as
\* before the call, and the response is the row as updated.
C7_PartialUpdate ==
    \A c \in Clients :
        (Finished(c, "update") /\ resp[c].status = 200)
        => \E old \in pre[c] : \E new \in table :
              /\ old.id = req[c].id
              /\ new.id = old.id
              /\ \A k \in Fields :
                    new[k] = IF k \in Body(c).set THEN Body(c)[k] ELSE old[k]
              /\ table = (pre[c] \ {old}) \cup {new}
              /\ resp[c].body = {new}

\* An update of the quantity alone has changed it on a table of two rows.
C7_Witness ==
    \E c \in Clients :
        /\ Finished(c, "update")
        /\ resp[c].status = 200
        /\ Cardinality(pre[c]) = 2
        /\ Body(c).set = {"quantity"}
        /\ \E old \in pre[c] :
              old.id = req[c].id /\ old.quantity # Body(c).quantity

\* C8: with no other request in flight, an update of a stored row that
\* supplies price <= 0 answers 400 "Price must be greater than 0", one that
\* supplies quantity < 0 (and no such price) answers 400 "Quantity must be
\* greater than or equal to 0", and in both cases the table is unchanged.
C8_InvalidUpdate400 ==
    \A c \in Clients :
        (Finished(c, "update") /\ req[c].id \in IdsOf(pre[c]))
        => LET badPrice == "price" \in Body(c).set /\ Body(c).price <= 0
               badQuantity ==
                   "quantity" \in Body(c).set /\ Body(c).quantity < 0
           IN /\ badPrice
                   => /\ resp[c] = HttpError(400,
                             "Price must be greater than 0")
                      /\ table = pre[c]
              /\ (badQuantity /\ ~badPrice)
                   => /\ resp[c] = HttpError(400,
                             "Quantity must be greater than or equal to 0")
                      /\ table = pre[c]

\* C9: with no other request in flight, an update that supplies a name
\* another stored row holds answers 400 "Product update failed due to
\* integrity error." and leaves the table as it was before the call, the
\* other fields it supplied included.
C9_RenameConflict ==
    \A c \in Clients :
        (/\ Finished(c, "update")
         /\ ValidUpdate(Body(c))
         /\ req[c].id \in IdsOf(pre[c])
         /\ "name" \in Body(c).set
         /\ \E r \in pre[c] : r.name = Body(c).name /\ r.id # req[c].id)
        => /\ resp[c] = HttpError(400,
                  "Product update failed due to integrity error.")
           /\ table = pre[c]

\* An update with another row's name and a new price has been answered.
C9_Witness ==
    \E c \in Clients :
        /\ Finished(c, "update")
        /\ Body(c).set = {"name", "price"}
        /\ ValidUpdate(Body(c))
        /\ \E old, r \in pre[c] :
              /\ old.id = req[c].id
              /\ r.id # old.id
              /\ r.name = Body(c).name
              /\ old.price # Body(c).price

\* A name that is empty or only whitespace (name.strip() == "").
Blank(name) == name \in {"", " "}

\* C10: with no other request in flight, a create whose payload is valid
\* and supplies every field, but whose name is empty or only whitespace,
\* answers 400 "Product name is required" and adds no row.
C10_BlankNameRejected ==
    \A c \in Clients :
        (/\ Finished(c, "create")
         /\ ValidCreate(Body(c))
         /\ Body(c).set = Fields
         /\ Blank(Body(c).name))
        => /\ resp[c] = HttpError(400, "Product name is required")
           /\ table = pre[c]

\* C11: with no other request in flight, a list with price_gte = X answers
\* 200 with exactly the stored rows whose price is >= X, a list without a
\* filter answers 200 with every stored row, the answer is the empty
\* collection with status 200 when no row qualifies, and the table is as
\* before the call.
C11_List ==
    \A c \in Clients :
        (Finished(c, "list") /\ ValidFilter(req[c].filter))
        => /\ table = pre[c]
           /\ resp[c] = Ok(IF req[c].filter = <<>>
                             THEN pre[c]
                             ELSE {r \in pre[c] : r.price >= req[c].filter[1]})

\* C12 as claimed: the id given to a new row is larger than every id given
\* to a row before, the rows since deleted included.
C12_NeverReused ==
    [][\A c \in Clients :
          (pc[c] = "create" /\ pc'[c] = "create_refresh")
          => \E row \in loc'[c] : row.id > high]_vars

\* C12 as amended: an id is given at creation and stays with its row; the id
\* given to a new row is larger than the id of every row stored at that
\* moment, so no two stored rows share an id; an update changes no id and a
\* delete removes the one id it names.
C12_FreshAmongStored ==
    [][\A c \in Clients :
          /\ (pc[c] = "create" /\ pc'[c] = "create_refresh")
                => \E row \in table' :
                      /\ loc'[c] = {row}
                      /\ table' = table \cup {row}
                      /\ \A r \in table : r.id < row.id
          /\ (pc[c] = "update_commit" /\ pc'[c] # pc[c])
                => /\ IdsOf(table') = IdsOf(table)
                   /\ Cardinality(table') = Cardinality(table)
          /\ (pc[c] = "delete_commit" /\ pc'[c] # pc[c])
                => IdsOf(table') = IdsOf(table) \ {Obj(c).id}]_vars

\* A create that met an empty table has just been given id 1 although id 2
\* had been given before: the rows are deleted and the numbering has started
\* again.
C12_Witness ==
    \E c \in Clients :
        /\ pc[c] = "create_refresh"
        /\ pre[c] = {}
        /\ Obj(c).id = 1
        /\ high = 2
        /\ table = loc[c]

\* The requests of the runs checked for progress: one name, one id, and one
\* payload for each way a handler can end.
LiveRequests ==
    {r \in Requests :
        /\ r.id <= 1
        /\ r.body.name \in {"", "a", None}
        /\ r.body.quantity = 0
        /\ r.body.price <= 1
        /\ r.op = "create" => (r.body.description = None <=> r.body.category = None)
        /\ r.op = "update" => r.body.set \in {{"price"}, {"name"}}
        /\ r.filter \in {<<>>, <<0 - 1>>}}

AcceptLive(c) == \E r \in LiveRequests : Receive(c, r, {})

NextLive == \E c \in Clients : AcceptLive(c) \/ Handle(c)

\* A worker thread that has a request runs its handler, and the dependency's
\* exit code after it, to the end; nothing obliges a client to send one.
Fairness == \A c \in Clients : WF_vars(Handle(c))

SpecLive == Init /\ [][NextLive]_vars /\ Fairness

\* C13: every request holds a session of its own from its arrival on, the
\* session is closed by the step that ends the request and by no other, on
\* every way out of the handler (200, 400, 404, 422, 500), and every open
\* session is eventually closed: no finished request leaves one open.
C13_SessionReleased ==
    /\ [](\A c \in Clients : pc[c] = "idle" <=> sess[c] = "closed")
    /\ [][\A c \in Clients :
             /\ (sess[c] = "closed" /\ sess'[c] = "open") => pc[c] = "idle"
             /\ (sess[c] = "open" /\ sess'[c] = "closed")
                   => pc[c] = "done" /\ pc'[c] = "idle"]_vars
    /\ \A c \in Clients : (sess[c] = "open") ~> (sess[c] = "closed")

\* The first worker has finished a request (the second is given one only
\* while the first is busy) and its session is closed; the second has stored
\* a row and is leaving on an uncaught failure, its session still open.
C13_Witness ==
    /\ pc[1] = "idle"
    /\ sess[1] = "closed"
    /\ table # {}
    /\ pc[2] = "done"
    /\ resp[2] = ServerError
    /\ sess[2] = "open"

\* C14: under every interleaving of requests, every request ends in one of
\* the documented outcomes: 200, 400, 404 or 422.
C14_NoUnhandledFault ==
    \A c \in Clients :
        pc[c] = "done" => resp[c].status \in {200, 400, 404, 422}

\* The requests of the runs in which two requests meet on one record: one
\* id, one name, two prices, a create with or without the optional fields,
\* an update of the name or of the price.
PairRequests ==
    {r \in Requests :
        /\ r.id <= 1
        /\ r.body.name \in {"a", None}
        /\ r.body.quantity = 0
        /\ r.op = "create"
              => /\ r.body.price = 1
                 /\ r.body.description = None <=> r.body.category = None
        /\ r.op = "update"
              => /\ r.body.set \in {{"price"}, {"name"}}
                 /\ r.body.price \in {0, 1, 2}
        /\ r.filter = <<>>}

\* Request d has arrived and has not taken a step, and the table is still
\* the one it met: it is as if it arrived now.
Fresh(d) == pc[d] = req[d].op /\ pre[d] = table

\* A request arrives together with the others in flight: each of them is
\* still fresh.  pre records the table the request met.
AcceptPair(c) ==
    /\ \A d \in Clients \ {c} : pc[d] = "idle" \/ Fresh(d)
    /\ \E r \in PairRequests : Receive(c, r, table)

NextPair == \E c \in Clients : AcceptPair(c) \/ Handle(c)

SpecPair == Init /\ [][NextPair]_vars

\* C15: when two creates with the same name, which no row holds, arrive
\* together and run concurrently, then however their steps interleave one
\* answers 200 with its row, the other answers 400 "Product creation failed
\* due to duplicate name.", and the table has exactly one row of that name,
\* with the fields of the create that answered 200.
C15_ConcurrentCreates ==
    \A c, d \in Clients :
        (/\ c # d
         /\ Finished(c, "create") /\ Finished(d, "create")
         /\ ValidCreate(Body(c)) /\ ValidCreate(Body(d))
         /\ Body(c).name = Body(d).name
         /\ Body(c).name # ""
         /\ pre[c] = pre[d]
         /\ ~Holds(pre[c], Body(c).name))
        => \E w, l \in {c, d} :
              /\ w # l
              /\ resp[w].status = 200
              /\ resp[l] = HttpError(400,
                     "Product creation failed due to duplicate name.")
              /\ \E row \in table :
                    /\ \A k \in Fields : row[k] = Body(w)[k]
                    /\ resp[w].body = {row}
                    /\ {r \in table : r.name = Body(w).name} = {row}

\* update_product run from its lookup to its return with no other request
\* in between: the table it leaves and the response it gives.
UpdateResult(tbl, id, b) ==
    IF First(tbl, id) = {}
      THEN [table |-> tbl, resp |-> HttpError(404, "Product not found")]
    ELSE LET old == CHOOSE r \in First(tbl, id) : TRUE
             new == Setattr(old, b)
             cols == Dirty(old, new)
             written == UpdateRow(tbl, id, cols, new)
         IN
         IF "price" \in b.set /\ b.price <= 0
           THEN [table |-> tbl,
                 resp |-> HttpError(400, "Price must be greater than 0")]
         ELSE IF "quantity" \in b.set /\ b.quantity < 0
           THEN [table |-> tbl,
                 resp |-> HttpError(400,
                     "Quantity must be greater than or equal to 0")]
         ELSE IF "name" \in cols /\ NameTaken(tbl, new.name, id)
           THEN [table |-> tbl,
                 resp |-> HttpError(400,
                     "Product update failed due to integrity error.")]
         ELSE [table |-> written, resp |-> Serialize(First(written, id))]

\* With one request at a time, the steps of update_product give what
\* UpdateResult computes.
UpdateResultAgrees ==
    \A c \in Clients :
        (Finished(c, "update") /\ ValidUpdate(Body(c)))
        => /\ table = UpdateResult(pre[c], req[c].id, Body(c)).table
           /\ resp[c] = UpdateResult(pre[c], req[c].id, Body(c)).resp

\* Updates x and then y of the record, one after the other, from the table
\* both met, leave the table and give the responses of the state.
SerialOrder(x, y) ==
    LET first == UpdateResult(pre[x], req[x].id, Body(x))
        second == UpdateResult(first.table, req[y].id, Body(y))
    IN /\ resp[x] = first.resp
       /\ resp[y] = second.resp
       /\ table = second.table

\* C16: when two valid updates of the same stored record arrive together
\* and run concurrently, then however their steps interleave the table they
\* leave and their two responses are those of running the two updates one
\* after the other in one of the two orders.
C16_SerialisableUpdates ==
    \A c, d \in Clients :
        (/\ c # d
         /\ Finished(c, "update") /\ Finished(d, "update")
         /\ ValidUpdate(Body(c)) /\ ValidUpdate(Body(d))
         /\ req[c].id = req[d].id
         /\ req[c].id \in IdsOf(pre[c])
         /\ pre[c] = pre[d])
        => SerialOrder(c, d) \/ SerialOrder(d, c)

C18_NonEmptyNames == \A r \in table : r.name # ""

\* create_product run from its name check to its return with no other
\* request in between: the table it leaves and the response it gives.
CreateResult(tbl, b) ==
    IF b.name = ""
      THEN [table |-> tbl,
            resp |-> HttpError(400, "Product name is required")]
    ELSE IF NameTaken(tbl, b.name, 0)
      THEN [table |-> tbl,
            resp |-> HttpError(400,
                "Product creation failed due to duplicate name.")]
    ELSE [table |-> Insert(tbl, b),
          resp |-> Serialize(First(Insert(tbl, b), NewId(tbl)))]

\* With one request at a time, the steps of create_product give what
\* CreateResult computes.
CreateResultAgrees ==
    \A c \in Clients :
        (Finished(c, "create") /\ ValidCreate(Body(c)))
        => /\ table = CreateResult(pre[c], Body(c)).table
           /\ resp[c] = CreateResult(pre[c], Body(c)).resp

\* The request has answered 200 and has taken the name of row o away: a
\* delete of o, or an update of o to another name.
Frees(c, o) ==
    /\ pc[c] = "done"
    /\ resp[c].status = 200
    /\ o.id = req[c].id
    /\ \/ req[c].op = "delete"
       \/ /\ req[c].op = "update"
          /\ "name" \in Body(c).set
          /\ Body(c).name # o.name

\* C19: with no other request in flight, once a delete or a rename has
\* answered 200, a create with the old name, and an update of another row
\* to the old name, answer 200 on the table it leaves: the old name is free.
C19_NameFreed ==
    \A c \in Clients : \A o \in pre[c] :
        Frees(c, o)
        => /\ \A b \in CreateBodies :
                 (ValidCreate(b) /\ b.name = o.name)
                 => CreateResult(table, b).resp.status = 200
           /\ \A r \in table :
                 r.id # o.id
                 => UpdateResult(table, r.id,
                        UpdateBody({"name"}, o.name, 0, 0, None, None)
                      ).resp.status = 200

\* The same, for the refusal alone: neither request is refused as a
\* duplicate.
NameNotRefused ==
    \A c \in Clients : \A o \in pre[c] :
        Frees(c, o)
        => /\ \A b \in CreateBodies :
                 (ValidCreate(b) /\ b.name = o.name)
                 => CreateResult(table, b).resp.detail
                       # "Product creation failed due to duplicate name."
           /\ \A r \in table :
                 r.id # o.id
                 => UpdateResult(table, r.id,
                        UpdateBody({"name"}, o.name, 0, 0, None, None)
                      ).resp.status # 400

\* C20: with no other request in flight, a valid update of a stored row
\* that takes no other row's name answers 200, and the same payload applied
\* again leaves the same table and gives the same response; a payload that
\* supplies nothing, or only the row's own name, leaves the table as it
\* was.
C20_IdempotentUpdate ==
    \A c \in Clients : \A o \in pre[c] :
        (/\ Finished(c, "update")
         /\ ValidUpdate(Body(c))
         /\ o.id = req[c].id
         /\ ~("name" \in Body(c).set
                 /\ NameTaken(pre[c], Body(c).name, o.id)))
        => /\ resp[c].status = 200
           /\ UpdateResult(table, o.id, Body(c))
                 = [table |-> table, resp |-> resp[c]]
           /\ (Body(c).set = {}
                 \/ (Body(c).set = {"name"} /\ Body(c).name = o.name))
              => table = pre[c]

\* The same, for the table alone: the second application changes nothing.
UpdateTwiceSameTable ==
    \A c \in Clients : \A o \in pre[c] :
        (/\ Finished(c, "update")
         /\ ValidUpdate(Body(c))
         /\ o.id = req[c].id)
        => /\ UpdateResult(table, o.id, Body(c)).table = table
           /\ (Body(c).set = {}
                 \/ (Body(c).set = {"name"} /\ Body(c).name = o.name))
              => table = pre[c]

====
